---- MODULE Spec2Model ----
(***************************************************************************)
(* mackup/application.py: ApplicationProfile.backup / restore / uninstall. *)
(*                                                                         *)
(* The state is the ApplicationProfile object (files, dry_run), the part   *)
(* of the filesystem its files name (one entry under $HOME and one under   *)
(* the mackup folder per file), the position of the running method in its  *)
(* `for filename in self.files` loop, and a log of every call the methods  *)
(* make to utils.confirm / utils.copy / utils.delete and of every          *)
(* exception they let escape.  print() output and the `verbose` flag,      *)
(* which selects between messages only, are not part of the state.         *)
(***************************************************************************)
EXTENDS Integers, Sequences, FiniteSets

\* Number of entries of self.files.
MaxFiles == 2
\* Number of method calls (backup / restore / uninstall) made on the object.
MaxCalls == 2

Filenames == 1..MaxFiles

\* What can sit at a path.  "LinkToOther" is a symlink whose target exists and
\* is neither a regular file nor a directory (a fifo, a socket, a device);
\* "Other" is such an entry itself.
Kinds ==
  {"Absent", "File", "Dir", "LinkToFile", "LinkToDir", "LinkToOther", "BrokenLink", "Other"}

Paths == {"home", "mackup"} \X Filenames

VARIABLES
  files,      \* self.files: the sequence the loops iterate
  dry_run,    \* self.dry_run
  synced,     \* filenames utils.can_file_be_synced_on_current_platform allows
  fs,         \* the filesystem: Paths -> Kinds
  op,         \* the running method: "idle", "backup" or "restore"
  i,          \* index in files of the file the loop handles next
  calls,      \* the methods called so far, in order
  raised,     \* the exception the last finished call let escape, or "none"
  fs0,        \* the filesystem when the current (or last) call started
  log         \* calls made to utils and exceptions raised, in order

vars == <<files, dry_run, synced, fs, op, i, calls, raised, fs0, log>>

----------------------------------------------------------------------------
\* os.path predicates, by the kind of the entry at the path.  isfile, isdir
\* and exists follow symlinks; islink does not.

isfile(path) == fs[path] \in {"File", "LinkToFile"}

isdir(path) == fs[path] \in {"Dir", "LinkToDir"}

islink(path) == fs[path] \in {"LinkToFile", "LinkToDir", "LinkToOther", "BrokenLink"}

exists(path) == fs[path] \notin {"Absent", "BrokenLink"}

getFilepaths(filename) == [home |-> <<"home", filename>>, mackup |-> <<"mackup", filename>>]

can_file_be_synced_on_current_platform(filename) == filename \in synced

\* Mutant of file_type: the chain ends in a plain `else: file_type = "link"`
\* and never raises.
file_typeElseLink(path) ==
  IF isfile(path) THEN "file"
  ELSE IF isdir(path) THEN "folder"
  ELSE "link"

\* The "Name it right" chain of backup() and restore(): the file_type, or
\* "unsupported" where the code raises ValueError.
file_type(path) ==
  IF isfile(path) THEN "file"
  ELSE IF isdir(path) THEN "folder"
  ELSE IF islink(path) THEN "link"
  ELSE "unsupported"

\* What a successful utils.copy(src, dst) leaves at dst: a copy of what src
\* resolves to.
copied(src) == IF isdir(src) THEN "Dir" ELSE "File"

----------------------------------------------------------------------------
\* Log entries.  pre is the kind of the entry at path when the entry is made;
\* ok is the answer of a confirm and the success of a copy or delete.

Event(act, filename, path, pre, ok) ==
  [call |-> Len(calls), file |-> filename, act |-> act, path |-> path, pre |-> pre, ok |-> ok]

Visit(filename, path) == Event("visit", filename, path, fs[path], TRUE)

\* The loop moves on to the next file, or the method returns after the last.
Continue ==
  /\ i' = i + 1
  /\ op' = IF i = Len(files) THEN "idle" ELSE op
  /\ raised' = "none"

\* An exception escapes the method.
Raise(exc) ==
  /\ i' = i
  /\ op' = "idle"
  /\ raised' = exc

Init ==
  /\ files = [n \in 1..MaxFiles |-> n]
  /\ dry_run \in BOOLEAN
  /\ synced \in SUBSET Filenames
  /\ fs \in [Paths -> Kinds]
  /\ op = "idle"
  /\ i = 1
  /\ calls = <<>>
  /\ raised = "none"
  /\ fs0 = fs
  /\ log = <<>>

Call(method) ==
  /\ op = "idle"
  /\ Len(calls) < MaxCalls
  /\ op' = method
  /\ i' = 1
  /\ calls' = Append(calls, method)
  /\ raised' = "none"
  /\ fs0' = fs
  /\ UNCHANGED <<files, dry_run, synced, fs, log>>

CallBackup == Call("backup")

CallRestore == Call("restore")

\* uninstall(): raise NotImplementedError.
Uninstall ==
  /\ op = "idle"
  /\ Len(calls) < MaxCalls
  /\ calls' = Append(calls, "uninstall")
  /\ raised' = "NotImplementedError"
  /\ fs0' = fs
  /\ log' = Append(log, [call |-> Len(calls) + 1, file |-> 0, act |-> "raise",
                         path |-> <<"none", 0>>, pre |-> "Absent", ok |-> FALSE])
  /\ UNCHANGED <<files, dry_run, synced, fs, op, i>>

----------------------------------------------------------------------------
\* backup(): one iteration of the loop per step.

InBackup == op = "backup" /\ i \in 1..Len(files)

\* Mutant of BackupWanted: os.path.isdir(home_filepath) is left out.
BackupWantedFilesOnly(filename) ==
  LET p == getFilepaths(filename) IN
  /\ isfile(p.home)
  /\ ~(isfile(p.mackup) \/ isdir(p.mackup))

\* The condition of the outer `if` of backup().
BackupWanted(filename) ==
  LET p == getFilepaths(filename) IN
  /\ isfile(p.home) \/ isdir(p.home)
  /\ ~(isfile(p.mackup) \/ isdir(p.mackup))

\* The outer condition is false: nothing but (verbose) output.
BackupNothing ==
  /\ InBackup
  /\ LET filename == files[i]
         p == getFilepaths(filename) IN
     /\ ~BackupWanted(filename)
     /\ log' = Append(log, Visit(filename, p.mackup))
     /\ Continue
     /\ UNCHANGED <<files, dry_run, synced, fs, calls, fs0>>

\* Mutant of BackupDryRun: the dry_run test is missing and the file is copied.
BackupDryRunCopies ==
  /\ InBackup
  /\ LET filename == files[i]
         p == getFilepaths(filename) IN
     /\ BackupWanted(filename)
     /\ dry_run
     /\ ~exists(p.mackup)
     /\ log' = log \o << Visit(filename, p.mackup),
                         Event("copy", filename, p.mackup, fs[p.mackup], TRUE) >>
     /\ fs' = [fs EXCEPT ![p.mackup] = copied(p.home)]
     /\ Continue
     /\ UNCHANGED <<files, dry_run, synced, calls, fs0>>

\* `if self.dry_run: continue`.
BackupDryRun ==
  /\ InBackup
  /\ LET filename == files[i]
         p == getFilepaths(filename) IN
     /\ BackupWanted(filename)
     /\ dry_run
     /\ log' = Append(log, Visit(filename, p.mackup))
     /\ Continue
     /\ UNCHANGED <<files, dry_run, synced, fs, calls, fs0>>

\* Mutant of BackupUnsupported: the error is caught per file and the loop
\* goes on.
BackupUnsupportedSkips ==
  /\ InBackup
  /\ LET filename == files[i]
         p == getFilepaths(filename) IN
     /\ BackupWanted(filename)
     /\ ~dry_run
     /\ exists(p.mackup)
     /\ file_type(p.mackup) = "unsupported"
     /\ log' = log \o << Visit(filename, p.mackup),
                         Event("raise", filename, p.mackup, fs[p.mackup], FALSE) >>
     /\ Continue
     /\ UNCHANGED <<files, dry_run, synced, fs, calls, fs0>>

\* There is an entry at the backup path that is no file, folder or link.
BackupUnsupported ==
  /\ InBackup
  /\ LET filename == files[i]
         p == getFilepaths(filename) IN
     /\ BackupWanted(filename)
     /\ ~dry_run
     /\ exists(p.mackup)
     /\ file_type(p.mackup) = "unsupported"
     /\ log' = log \o << Visit(filename, p.mackup),
                         Event("raise", filename, p.mackup, fs[p.mackup], FALSE) >>
     /\ Raise("ValueError")
     /\ UNCHANGED <<files, dry_run, synced, fs, calls, fs0>>

\* Mutant of BackupRefused: utils.delete is called outside the
\* `if utils.confirm(...)`, so a no still deletes the backup entry.
BackupRefusedDeletes ==
  /\ InBackup
  /\ LET filename == files[i]
         p == getFilepaths(filename) IN
     /\ BackupWanted(filename)
     /\ ~dry_run
     /\ exists(p.mackup)
     /\ file_type(p.mackup) # "unsupported"
     /\ log' = log \o << Visit(filename, p.mackup),
                         Event("confirm", filename, p.mackup, fs[p.mackup], FALSE),
                         Event("delete", filename, p.mackup, fs[p.mackup], TRUE) >>
     /\ fs' = [fs EXCEPT ![p.mackup] = "Absent"]
     /\ Continue
     /\ UNCHANGED <<files, dry_run, synced, calls, fs0>>

\* utils.confirm answers no.
BackupRefused ==
  /\ InBackup
  /\ LET filename == files[i]
         p == getFilepaths(filename) IN
     /\ BackupWanted(filename)
     /\ ~dry_run
     /\ exists(p.mackup)
     /\ file_type(p.mackup) # "unsupported"
     /\ log' = log \o << Visit(filename, p.mackup),
                         Event("confirm", filename, p.mackup, fs[p.mackup], FALSE) >>
     /\ Continue
     /\ UNCHANGED <<files, dry_run, synced, fs, calls, fs0>>

\* Mutant of BackupReplace: the `else` of `if os.path.exists(mackup_filepath)`
\* is lost, so the unconditional copy runs after the confirmed one as well.
BackupReplaceCopiesTwice ==
  /\ InBackup
  /\ LET filename == files[i]
         p == getFilepaths(filename) IN
     /\ BackupWanted(filename)
     /\ ~dry_run
     /\ exists(p.mackup)
     /\ file_type(p.mackup) # "unsupported"
     /\ log' = log \o << Visit(filename, p.mackup),
                         Event("confirm", filename, p.mackup, fs[p.mackup], TRUE),
                         Event("delete", filename, p.mackup, fs[p.mackup], TRUE),
                         Event("copy", filename, p.mackup, "Absent", TRUE),
                         Event("copy", filename, p.mackup, copied(p.home), TRUE) >>
     /\ fs' = [fs EXCEPT ![p.mackup] = copied(p.home)]
     /\ Continue
     /\ UNCHANGED <<files, dry_run, synced, calls, fs0>>

\* utils.confirm answers yes: utils.delete(mackup), then utils.copy(home,
\* mackup).  Either may fail with an I/O error, which escapes.
BackupReplace ==
  /\ InBackup
  /\ LET filename == files[i]
         p == getFilepaths(filename) IN
     /\ BackupWanted(filename)
     /\ ~dry_run
     /\ exists(p.mackup)
     /\ file_type(p.mackup) # "unsupported"
     /\ \E deleted \in BOOLEAN, copiedOk \in BOOLEAN :
          LET asked == << Visit(filename, p.mackup),
                          Event("confirm", filename, p.mackup, fs[p.mackup], TRUE),
                          Event("delete", filename, p.mackup, fs[p.mackup], deleted) >> IN
          IF ~deleted
          THEN /\ copiedOk
               /\ log' = log \o asked \o
                         << Event("raise", filename, p.mackup, fs[p.mackup], FALSE) >>
               /\ fs' = fs
               /\ Raise("IOError")
          ELSE IF ~copiedOk
          THEN /\ log' = log \o asked \o
                         << Event("copy", filename, p.mackup, "Absent", FALSE),
                            Event("raise", filename, p.mackup, "Absent", FALSE) >>
               /\ fs' = [fs EXCEPT ![p.mackup] = "Absent"]
               /\ Raise("IOError")
          ELSE /\ log' = log \o asked \o
                         << Event("copy", filename, p.mackup, "Absent", TRUE) >>
               /\ fs' = [fs EXCEPT ![p.mackup] = copied(p.home)]
               /\ Continue
     /\ UNCHANGED <<files, dry_run, synced, calls, fs0>>

\* os.path.exists(mackup) is false: utils.copy(home, mackup), unasked.
BackupCopy ==
  /\ InBackup
  /\ LET filename == files[i]
         p == getFilepaths(filename) IN
     /\ BackupWanted(filename)
     /\ ~dry_run
     /\ ~exists(p.mackup)
     /\ \E copiedOk \in BOOLEAN :
          IF copiedOk
          THEN /\ log' = log \o << Visit(filename, p.mackup),
                                   Event("copy", filename, p.mackup, fs[p.mackup], TRUE) >>
               /\ fs' = [fs EXCEPT ![p.mackup] = copied(p.home)]
               /\ Continue
          ELSE /\ log' = log \o << Visit(filename, p.mackup),
                                   Event("copy", filename, p.mackup, fs[p.mackup], FALSE),
                                   Event("raise", filename, p.mackup, fs[p.mackup], FALSE) >>
               /\ fs' = fs
               /\ Raise("IOError")
     /\ UNCHANGED <<files, dry_run, synced, calls, fs0>>

----------------------------------------------------------------------------
\* restore(): one iteration of the loop per step.

InRestore == op = "restore" /\ i \in 1..Len(files)

\* Mutant of RestoreWanted: os.path.isdir(mackup_filepath) is left out.
RestoreWantedFilesOnly(filename) ==
  LET p == getFilepaths(filename) IN
  /\ isfile(p.mackup)
  /\ can_file_be_synced_on_current_platform(filename)

\* `file_or_dir_exists and supported`.
RestoreWanted(filename) ==
  LET p == getFilepaths(filename) IN
  /\ isfile(p.mackup) \/ isdir(p.mackup)
  /\ can_file_be_synced_on_current_platform(filename)

RestoreNothing ==
  /\ InRestore
  /\ LET filename == files[i]
         p == getFilepaths(filename) IN
     /\ ~RestoreWanted(filename)
     /\ log' = Append(log, Visit(filename, p.home))
     /\ Continue
     /\ UNCHANGED <<files, dry_run, synced, fs, calls, fs0>>

RestoreDryRun ==
  /\ InRestore
  /\ LET filename == files[i]
         p == getFilepaths(filename) IN
     /\ RestoreWanted(filename)
     /\ dry_run
     /\ log' = Append(log, Visit(filename, p.home))
     /\ Continue
     /\ UNCHANGED <<files, dry_run, synced, fs, calls, fs0>>

RestoreUnsupported ==
  /\ InRestore
  /\ LET filename == files[i]
         p == getFilepaths(filename) IN
     /\ RestoreWanted(filename)
     /\ ~dry_run
     /\ exists(p.home)
     /\ file_type(p.home) = "unsupported"
     /\ log' = log \o << Visit(filename, p.home),
                         Event("raise", filename, p.home, fs[p.home], FALSE) >>
     /\ Raise("ValueError")
     /\ UNCHANGED <<files, dry_run, synced, fs, calls, fs0>>

RestoreRefused ==
  /\ InRestore
  /\ LET filename == files[i]
         p == getFilepaths(filename) IN
     /\ RestoreWanted(filename)
     /\ ~dry_run
     /\ exists(p.home)
     /\ file_type(p.home) # "unsupported"
     /\ log' = log \o << Visit(filename, p.home),
                         Event("confirm", filename, p.home, fs[p.home], FALSE) >>
     /\ Continue
     /\ UNCHANGED <<files, dry_run, synced, fs, calls, fs0>>

\* utils.confirm answers yes: utils.copy(mackup, home), with no delete.
RestoreReplace ==
  /\ InRestore
  /\ LET filename == files[i]
         p == getFilepaths(filename) IN
     /\ RestoreWanted(filename)
     /\ ~dry_run
     /\ exists(p.home)
     /\ file_type(p.home) # "unsupported"
     /\ \E copiedOk \in BOOLEAN :
          LET asked == << Visit(filename, p.home),
                          Event("confirm", filename, p.home, fs[p.home], TRUE),
                          Event("copy", filename, p.home, fs[p.home], copiedOk) >> IN
          IF copiedOk
          THEN /\ log' = log \o asked
               /\ fs' = [fs EXCEPT ![p.home] = copied(p.mackup)]
               /\ Continue
          ELSE /\ log' = log \o asked \o
                         << Event("raise", filename, p.home, fs[p.home], FALSE) >>
               /\ fs' = fs
               /\ Raise("IOError")
     /\ UNCHANGED <<files, dry_run, synced, calls, fs0>>

\* Mutant of RestoreCopy: the arguments of utils.copy are swapped, so the
\* copy goes from the home path, where nothing is, to the backup path.
RestoreCopyBackwards ==
  /\ InRestore
  /\ LET filename == files[i]
         p == getFilepaths(filename) IN
     /\ RestoreWanted(filename)
     /\ ~dry_run
     /\ ~exists(p.home)
     /\ log' = log \o << Visit(filename, p.home),
                         Event("copy", filename, p.mackup, fs[p.mackup], FALSE),
                         Event("raise", filename, p.mackup, fs[p.mackup], FALSE) >>
     /\ fs' = fs
     /\ Raise("IOError")
     /\ UNCHANGED <<files, dry_run, synced, calls, fs0>>

\* os.path.exists(home) is false: utils.copy(mackup, home), unasked.
RestoreCopy ==
  /\ InRestore
  /\ LET filename == files[i]
         p == getFilepaths(filename) IN
     /\ RestoreWanted(filename)
     /\ ~dry_run
     /\ ~exists(p.home)
     /\ \E copiedOk \in BOOLEAN :
          IF copiedOk
          THEN /\ log' = log \o << Visit(filename, p.home),
                                   Event("copy", filename, p.home, fs[p.home], TRUE) >>
               /\ fs' = [fs EXCEPT ![p.home] = copied(p.mackup)]
               /\ Continue
          ELSE /\ log' = log \o << Visit(filename, p.home),
                                   Event("copy", filename, p.home, fs[p.home], FALSE),
                                   Event("raise", filename, p.home, fs[p.home], FALSE) >>
               /\ fs' = fs
               /\ Raise("IOError")
     /\ UNCHANGED <<files, dry_run, synced, calls, fs0>>

----------------------------------------------------------------------------
Next ==
  \/ CallBackup
  \/ CallRestore
  \/ Uninstall
  \/ BackupNothing
  \/ BackupDryRun
  \/ BackupUnsupported
  \/ BackupRefused
  \/ BackupReplace
  \/ BackupCopy
  \/ RestoreNothing
  \/ RestoreDryRun
  \/ RestoreUnsupported
  \/ RestoreRefused
  \/ RestoreReplace
  \/ RestoreCopy

Spec == Init /\ [][Next]_vars

----------------------------------------------------------------------------
\* Vocabulary of the properties.

\* Positions in the log of the entries of call k about filename with an act
\* in acts.
EventsOf(k, filename, acts) ==
  {n \in DOMAIN log : log[n].call = k /\ log[n].file = filename /\ log[n].act \in acts}

\* The last call made, and whether it has returned or raised.
LastCall == Len(calls)

Done(method) == op = "idle" /\ LastCall > 0 /\ calls[LastCall] = method

\* The loop of call k reached filename.
Reached(k, filename) == EventsOf(k, filename, {"visit"}) # {}

\* Kinds that os.path.isfile or os.path.isdir accept.
FileOrDir == {"File", "Dir", "LinkToFile", "LinkToDir"}

\* Entry n of the log comes right after a yes to confirm for the same file in
\* the same call.
Confirmed(n) ==
  \E m \in DOMAIN log :
    /\ m < n
    /\ log[m].call = log[n].call
    /\ log[m].file = log[n].file
    /\ log[m].act = "confirm"
    /\ log[m].ok

----------------------------------------------------------------------------
\* C1: with dry_run set, backup() and restore() never call copy, delete or
\* confirm, and the filesystem stays as it was.
DryRunNeverMutates ==
  dry_run =>
    /\ fs = fs0
    /\ \A n \in DOMAIN log : log[n].act \notin {"copy", "delete", "confirm"}

\* A dry run in which backup() met a file it would have raised on and
\* restore() met one it would have asked about.
DryRunWitness ==
  /\ dry_run
  /\ op = "idle"
  /\ calls = <<"backup", "restore">>
  /\ \E f \in Filenames : fs[<<"home", f>>] = "File" /\ fs[<<"mackup", f>>] = "Other"
  /\ \E g \in synced : fs[<<"mackup", g>>] = "Dir" /\ fs[<<"home", g>>] = "LinkToOther"
  /\ \A f \in Filenames : Reached(1, f) /\ Reached(2, f)

----------------------------------------------------------------------------
\* C2: in backup(), no delete or copy reaches a backup path that held an
\* entry of any kind when the loop came to the file, unless confirm was
\* called for that file first and answered yes; and after a no, nothing is
\* deleted or copied for that file.
BackupNeverOverwritesSilently ==
  \A n \in DOMAIN log :
    LET e == log[n] IN
    calls[e.call] = "backup" =>
      /\ (/\ e.act \in {"copy", "delete"}
          /\ \E v \in EventsOf(e.call, e.file, {"visit"}) : log[v].pre # "Absent")
         => Confirmed(n)
      /\ (e.act = "confirm" /\ ~e.ok)
         => EventsOf(e.call, e.file, {"copy", "delete"}) = {}

----------------------------------------------------------------------------
\* C3 as stated: whenever backup() has run, every file whose home entry was a
\* file or directory and whose backup path held nothing was copied exactly
\* once and never deleted.
BackupCopiesEveryFreshFileOnce ==
  Done("backup") =>
    \A f \in Filenames :
      (fs0[<<"home", f>>] \in FileOrDir /\ fs0[<<"mackup", f>>] = "Absent")
      => /\ Cardinality(EventsOf(LastCall, f, {"copy"})) = 1
         /\ EventsOf(LastCall, f, {"delete"}) = {}

\* C3 amended: in a backup() without dry_run, every file the loop reached
\* whose home entry was a file or directory and whose backup path held
\* nothing had copy called for it exactly once, onto its backup path, and
\* delete never.
BackupCopiesFreshFileOnce ==
  (Done("backup") /\ ~dry_run) =>
    \A f \in Filenames :
      (/\ Reached(LastCall, f)
       /\ fs0[<<"home", f>>] \in FileOrDir
       /\ fs0[<<"mackup", f>>] = "Absent")
      => /\ Cardinality(EventsOf(LastCall, f, {"copy"})) = 1
         /\ \A n \in EventsOf(LastCall, f, {"copy"}) : log[n].path = <<"mackup", f>>
         /\ EventsOf(LastCall, f, {"delete"}) = {}

\* A finished backup() that copied a directory to an empty backup path.
BackupCopiesFreshFileWitness ==
  /\ Done("backup")
  /\ ~dry_run
  /\ raised = "none"
  /\ \E f \in Filenames :
       /\ fs0[<<"home", f>>] = "Dir"
       /\ fs0[<<"mackup", f>>] = "Absent"
       /\ fs[<<"mackup", f>>] = "Dir"
       /\ \E n \in EventsOf(LastCall, f, {"copy"}) : log[n].ok

----------------------------------------------------------------------------
\* C4 as stated: whenever restore() has run, every allowed file whose backup
\* entry was a file or directory and whose home path held nothing was copied
\* exactly once, with no confirm and no delete.
RestoreCopiesEveryFreshFileOnce ==
  Done("restore") =>
    \A f \in synced :
      (fs0[<<"mackup", f>>] \in FileOrDir /\ fs0[<<"home", f>>] = "Absent")
      => /\ Cardinality(EventsOf(LastCall, f, {"copy"})) = 1
         /\ EventsOf(LastCall, f, {"confirm", "delete"}) = {}

\* C4 amended: in a restore() without dry_run, every allowed file the loop
\* reached whose backup entry was a file or directory and whose home path
\* held nothing had copy called for it exactly once, onto its home path, and
\* confirm and delete never.
RestoreCopiesFreshFileOnce ==
  (Done("restore") /\ ~dry_run) =>
    \A f \in synced :
      (/\ Reached(LastCall, f)
       /\ fs0[<<"mackup", f>>] \in FileOrDir
       /\ fs0[<<"home", f>>] = "Absent")
      => /\ Cardinality(EventsOf(LastCall, f, {"copy"})) = 1
         /\ \A n \in EventsOf(LastCall, f, {"copy"}) : log[n].path = <<"home", f>>
         /\ EventsOf(LastCall, f, {"confirm", "delete"}) = {}

\* A finished restore() that copied a backed-up directory to an empty home
\* path.
RestoreCopiesFreshFileWitness ==
  /\ Done("restore")
  /\ ~dry_run
  /\ raised = "none"
  /\ \E f \in synced :
       /\ fs0[<<"mackup", f>>] = "Dir"
       /\ fs0[<<"home", f>>] = "Absent"
       /\ fs[<<"home", f>>] = "Dir"
       /\ \E n \in EventsOf(LastCall, f, {"copy"}) : log[n].ok

----------------------------------------------------------------------------
\* C5 as stated: whenever backup() has run, it raised for every file whose
\* home entry was a file or directory and whose backup entry was of no
\* supported kind, with no confirm, delete or copy for that file.
BackupRaisesOnEveryUnsupported ==
  Done("backup") =>
    \A f \in Filenames :
      (fs0[<<"home", f>>] \in FileOrDir /\ fs0[<<"mackup", f>>] = "Other")
      => /\ EventsOf(LastCall, f, {"raise"}) # {}
         /\ EventsOf(LastCall, f, {"confirm", "delete", "copy"}) = {}

\* C5 amended: in a backup() without dry_run, a file the loop reached whose
\* home entry was a file or directory and whose backup entry was of no
\* supported kind made backup() raise ValueError, with no confirm, delete or
\* copy for that file.
BackupRaisesOnUnsupported ==
  (Done("backup") /\ ~dry_run) =>
    \A f \in Filenames :
      (/\ Reached(LastCall, f)
       /\ fs0[<<"home", f>>] \in FileOrDir
       /\ fs0[<<"mackup", f>>] = "Other")
      => /\ raised = "ValueError"
         /\ EventsOf(LastCall, f, {"raise"}) = {Len(log)}
         /\ EventsOf(LastCall, f, {"confirm", "delete", "copy"}) = {}

\* backup() raised ValueError on a fifo at the backup path of its second
\* file.
BackupRaisesOnUnsupportedWitness ==
  /\ Done("backup")
  /\ ~dry_run
  /\ raised = "ValueError"
  /\ fs0[<<"home", files[2]>>] = "File"
  /\ fs0[<<"mackup", files[2]>>] = "Other"
  /\ Reached(LastCall, files[2])

----------------------------------------------------------------------------
\* Two calls of backup() in a row, call k - 1 and call k, the second one
\* finished, with every confirm of both answered no.
TwiceRefusing ==
  /\ LastCall >= 2
  /\ Done("backup")
  /\ calls[LastCall - 1] = "backup"
  /\ \A n \in DOMAIN log :
       (log[n].call \in {LastCall - 1, LastCall} /\ log[n].act = "confirm") => ~log[n].ok

\* The second of the two calls called neither copy nor delete and left the
\* filesystem as it found it.
SecondCallIdle ==
  /\ fs = fs0
  /\ \A n \in DOMAIN log : log[n].call = LastCall => log[n].act \notin {"copy", "delete"}

----------------------------------------------------------------------------
----------------------------------------------------------------------------
\* C8: in restore(), no copy reaches a home path that held an entry of any
\* kind when the loop came to the file, unless confirm was called for that
\* file first and answered yes; and after a no, nothing is deleted or copied
\* for that file.
RestoreNeverOverwritesSilently ==
  \A n \in DOMAIN log :
    LET e == log[n] IN
    calls[e.call] = "restore" =>
      /\ (/\ e.act \in {"copy", "delete"}
          /\ \E v \in EventsOf(e.call, e.file, {"visit"}) : log[v].pre # "Absent")
         => Confirmed(n)
      /\ (e.act = "confirm" /\ ~e.ok)
         => EventsOf(e.call, e.file, {"copy", "delete"}) = {}

----------------------------------------------------------------------------
\* Call k has returned or raised.
Finished(k) == k < LastCall \/ op = "idle"

\* The position of filename in self.files.
Position(filename) == CHOOSE j \in DOMAIN files : files[j] = filename

\* What the copies and deletes of the last call that succeeded leave at path.
Effect(path) ==
  LET done(act) == {n \in DOMAIN log : /\ log[n].call = LastCall
                                        /\ log[n].act = act
                                        /\ log[n].path = path
                                        /\ log[n].ok}
      src == IF path[1] = "home" THEN <<"mackup", path[2]>> ELSE <<"home", path[2]>>
  IN IF done("copy") # {} THEN (IF fs0[src] \in {"Dir", "LinkToDir"} THEN "Dir" ELSE "File")
     ELSE IF done("delete") # {} THEN "Absent"
     ELSE fs0[path]

\* C9: a raise is the last thing its call does, it follows every failed copy
\* or delete at once, and the files the loop reached are those up to the one
\* it raised on; what the call had copied or deleted stays so.  A refused
\* confirm is followed by the next file, and a call that did not raise
\* reached every file.
OnlyErrorsStopTheLoop ==
  /\ \A n \in DOMAIN log :
       LET e == log[n] IN
       calls[e.call] \in {"backup", "restore"} =>
         /\ e.act = "raise" =>
              /\ Finished(e.call)
              /\ \A m \in DOMAIN log : m > n => log[m].call # e.call
              /\ \A f \in Filenames : Reached(e.call, f) <=> Position(f) <= Position(e.file)
         /\ (e.act \in {"copy", "delete"} /\ ~e.ok) =>
              /\ n < Len(log)
              /\ log[n + 1].act = "raise"
              /\ log[n + 1].call = e.call
              /\ log[n + 1].file = e.file
         /\ (e.act = "confirm" /\ ~e.ok /\ Position(e.file) < Len(files)) =>
              IF n = Len(log)
              THEN op = calls[e.call] /\ i = Position(e.file) + 1
              ELSE /\ log[n + 1].act = "visit"
                   /\ log[n + 1].call = e.call
                   /\ log[n + 1].file = files[Position(e.file) + 1]
  /\ \A k \in DOMAIN calls :
       (/\ calls[k] \in {"backup", "restore"}
        /\ Finished(k)
        /\ \A n \in DOMAIN log : log[n].call = k => log[n].act # "raise")
       => \A f \in Filenames : Reached(k, f)
  /\ (raised # "none") = (LastCall > 0 /\ \E n \in DOMAIN log :
                                             log[n].call = LastCall /\ log[n].act = "raise")
  /\ LastCall > 0 => \A path \in Paths : fs[path] = Effect(path)

\* backup() twice: the first call was refused for the first file and went on
\* to raise on the second; the second call replaced the backup of the first
\* file, raised on the second, and the replacement stayed.
OnlyErrorsStopTheLoopWitness ==
  /\ calls = <<"backup", "backup">>
  /\ op = "idle"
  /\ raised = "ValueError"
  /\ \E n \in EventsOf(1, files[1], {"confirm"}) : ~log[n].ok
  /\ EventsOf(1, files[2], {"raise"}) # {}
  /\ \E n \in EventsOf(2, files[1], {"copy"}) : log[n].ok
  /\ EventsOf(2, files[2], {"raise"}) # {}
  /\ fs[<<"mackup", files[1]>>] = "File"
  /\ fs0[<<"mackup", files[1]>>] = "LinkToOther"

----------------------------------------------------------------------------
\* C10: backup() copies and deletes backup paths only and leaves every home
\* entry as it was; restore() copies onto home paths only, deletes nothing
\* and leaves every backup entry as it was; every delete is of a backup
\* path, in backup(), right after a yes.
MutationGoesOneWay ==
  /\ \A n \in DOMAIN log :
       LET e == log[n] IN
       /\ (calls[e.call] = "backup" /\ e.act \in {"copy", "delete"}) => e.path[1] = "mackup"
       /\ calls[e.call] = "restore" => e.act # "delete"
       /\ (calls[e.call] = "restore" /\ e.act = "copy") => e.path[1] = "home"
       /\ e.act = "delete" =>
            /\ calls[e.call] = "backup"
            /\ e.path[1] = "mackup"
            /\ n > 1
            /\ log[n - 1].act = "confirm"
            /\ log[n - 1].ok
            /\ log[n - 1].call = e.call
            /\ log[n - 1].file = e.file
  /\ (LastCall > 0 /\ calls[LastCall] = "backup") =>
       \A f \in Filenames : fs[<<"home", f>>] = fs0[<<"home", f>>]
  /\ (LastCall > 0 /\ calls[LastCall] = "restore") =>
       \A f \in Filenames : fs[<<"mackup", f>>] = fs0[<<"mackup", f>>]

\* backup() replaced a backup entry after a yes, then restore() copied a
\* backup over a home entry after a yes.
MutationGoesOneWayWitness ==
  /\ calls = <<"backup", "restore">>
  /\ op = "idle"
  /\ \E n \in DOMAIN log : log[n].call = 1 /\ log[n].act = "delete" /\ log[n].ok
  /\ \E n \in DOMAIN log : log[n].call = 1 /\ log[n].act = "copy" /\ log[n].ok
  /\ \E n \in DOMAIN log : /\ log[n].call = 2
                           /\ log[n].act = "copy"
                           /\ log[n].ok
                           /\ log[n].pre \notin {"Absent", "BrokenLink"}
  /\ fs # fs0

====
